---- MODULE Spec2Model ----
(***************************************************************************)
(* Stream alerts: the poller (AlertCog.poll_live), the dispatch unit       *)
(* (on_stream_start / sub_alert), the resolve unit (on_stream_end /        *)
(* sub_resolve), start-up (cog_load / load_subs) and the user commands     *)
(* that write the alert_channels table, over the four tables of            *)
(* streamalerts/data.py.                                                   *)
(*                                                                         *)
(* One action is one uninterrupted run of a coroutine between two awaits:  *)
(* the effect of the awaited call (a database statement, a Discord or      *)
(* Twitch request) together with the synchronous code that follows it up   *)
(* to the next await.                                                      *)
(***************************************************************************)
EXTENDS Naturals, Sequences, FiniteSets

\* ---------------------------------------------------------------- bounds
NumStreamers == 2
NumChannels == 2
MaxSubs == 2
MaxStreams == 2
MaxTasks == 2
MaxClock == 3
\* How many times the cog is loaded in a run.
MaxLoads == 2
\* The smaller scope of the runs that follow one subscription and one stream.
FewSubs == 1
FewStreams == 1
\* How many times on_stream_start is called for one stream where a caller
\* other than the poller calls it too.
MaxDispatches == 2
\* How long a message text is, in pieces (a brace or a word), and how many
\* times the formatters are called in a run.
MaxTemplateLen == 5
MaxRenders == 2
\* cog.py:108 slices the watch list into blocks of 100 user ids; the model's
\* block size is scaled down so that a watch list of NumStreamers ids can span
\* more than one block.
BlockSize == 1
\* A block size under which the whole watch list is one block.
WideBlock == 2

StreamerIds == 1..NumStreamers
ChannelIds == 1..NumChannels
\* The NULL of a nullable column (end_at, resolved_at) and "no row / no id".
NULL == 0

VARIABLES
    streamers,      \* table streamers: the userids that have a row
    subs,           \* table alert_channels: subs[i] is the row with subscriptionid i
    streams,        \* table streams: streams[i] is the row with streamid i
    alerts,         \* table stream_alerts: alerts[i] is the row with alertid i
    messages,       \* Discord: messages[i] is the message with id i
    errors,         \* what subscription_error was called with: {<<streamid, subid, msg>>}
    watching,       \* AlertCog.watching: the userids, in dict order
    live_streams,   \* AlertCog.live_streams: userid -> streamid, NULL when absent
    poll,           \* the poll_live task: its position and its locals
    tasks,          \* AlertCog.event_tasks: the detached units in flight
    now,            \* utc_now(): strictly increasing over the calls
    forked,         \* forked[streamid]: the units created for the stream, by kind
    loads,          \* how many times cog_load has run
    scope,          \* the rows a run may create, and its block size
    message_data,   \* the message a subscription's live_message / end_message holds
    rendered        \* what the formatters were called with and returned, in order

\* The message settings and their renderings.
render == <<message_data, rendered>>

vars == <<streamers, subs, streams, alerts, messages, errors, watching,
          live_streams, poll, tasks, now, forked, loads, scope, render>>

db == <<streamers, subs, streams, alerts>>

\* ---------------------------------------------------------------- helpers
Range(s) == {s[i] : i \in DOMAIN s}

RECURSIVE SetToSeq(_)
\* The ids of a set in ascending order (the order rows come back in).
SetToSeq(S) ==
    IF S = {} THEN <<>>
    ELSE LET m == CHOOSE x \in S : \A y \in S : x <= y
         IN <<m>> \o SetToSeq(S \ {m})

\* The subscriptionids of the rows that exist (a deleted row keeps its place:
\* SERIAL ids are not reused, and a unit in flight still holds the row object).
SubIds == {i \in DOMAIN subs : subs[i].exists}
AlertIds == {i \in DOMAIN alerts : alerts[i].exists}

\* ---------------------------------------------------------------- tables
\* A row of alert_channels as AlertChannel.create(...) makes it: the columns
\* not given take the schema's defaults.
NewSub(streamerid, channelid) ==
    [streamerid |-> streamerid, channelid |-> channelid, paused |-> FALSE,
     end_delete |-> FALSE, end_message |-> FALSE, exists |-> TRUE]

\* UniqueViolation with the unique index not there.
UniqueViolation_no_index(rows, channelid, streamerid, except) == FALSE

\* CREATE UNIQUE INDEX alert_channels_channelid_streamerid: whether a row other
\* than `except` already holds the pair.
UniqueViolation(rows, channelid, streamerid, except) ==
    \E i \in DOMAIN rows :
        /\ i # except
        /\ rows[i].exists
        /\ rows[i].channelid = channelid
        /\ rows[i].streamerid = streamerid

\* AlertChannel.create: the table after the INSERT; an INSERT the unique index
\* rejects raises and leaves the table as it was.
AlertChannel_create(rows, streamerid, channelid) ==
    IF UniqueViolation(rows, channelid, streamerid, NULL)
    THEN rows
    ELSE Append(rows, NewSub(streamerid, channelid))

\* The AlertChannel setting's write(): UPDATE ... SET channelid; an UPDATE the
\* unique index rejects raises and leaves the table as it was.
AlertChannel_write(rows, subid, channelid) ==
    IF UniqueViolation(rows, channelid, rows[subid].streamerid, subid)
    THEN rows
    ELSE [rows EXCEPT ![subid].channelid = channelid]

\* ON DELETE CASCADE from alert_channels to stream_alerts.
CascadeAlerts(rows, subid) ==
    [i \in DOMAIN rows |->
        IF rows[i].subscriptionid = subid
        THEN [rows[i] EXCEPT !.exists = FALSE]
        ELSE rows[i]]

\* DELETE FROM streamers WHERE userid = ..., which this repository never
\* issues (the Streamer row is removed by whoever maintains the database):
\* ON DELETE CASCADE takes the streamer's alert_channels and streams rows, and
\* with them their stream_alerts rows. The caches of the cog and the row
\* objects the units hold are not told.
Streamer_delete(streamerid) ==
    /\ streamerid \in streamers
    /\ streamers' = streamers \ {streamerid}
    /\ subs' = [i \in DOMAIN subs |->
                    IF subs[i].streamerid = streamerid
                    THEN [subs[i] EXCEPT !.exists = FALSE] ELSE subs[i]]
    /\ streams' = [i \in DOMAIN streams |->
                    IF streams[i].streamerid = streamerid
                    THEN [streams[i] EXCEPT !.exists = FALSE] ELSE streams[i]]
    /\ alerts' = [i \in DOMAIN alerts |->
                    IF \/ subs[alerts[i].subscriptionid].streamerid = streamerid
                       \/ streams[alerts[i].streamid].streamerid = streamerid
                    THEN [alerts[i] EXCEPT !.exists = FALSE] ELSE alerts[i]]
    /\ UNCHANGED <<messages, errors, watching, live_streams, poll, tasks, now,
                   forked, loads, scope, render>>

\* ---------------------------------------------------------------- start-up
PollIdle(pc) ==
    [pc |-> pc, block_i |-> 0, started |-> {}, ended |-> {}, popped |-> NULL,
     block |-> <<>>]

\* A message setting with no value: the column is NULL. `none` says that
\* the value is one Python takes for false (None, or a dict with no key),
\* `unset` that the column is NULL.
NoMessage == [none |-> TRUE, unset |-> TRUE, content |-> <<>>, tts |-> FALSE]

\* The message of a column that holds the text of a dict with no key.
EmptyMessage == [none |-> TRUE, unset |-> FALSE, content |-> <<>>, tts |-> FALSE]

\* AlertCog.__init__ with the tables empty; cog_load has not run yet. `data`
\* is the message the subscriptions made in the run are given.
InitOf(sc, data) ==
    /\ message_data = data
    /\ rendered = <<>>
    /\ streamers = {}
    /\ subs = <<>>
    /\ streams = <<>>
    /\ alerts = <<>>
    /\ messages = <<>>
    /\ errors = {}
    /\ watching = <<>>
    /\ live_streams = [s \in StreamerIds |-> NULL]
    /\ poll = PollIdle("unloaded")
    /\ tasks = <<>>
    /\ now = 1
    /\ forked = <<>>
    /\ loads = 0
    /\ scope = sc

InitIn(sc) == InitOf(sc, NoMessage)

Init == InitIn([subs |-> MaxSubs, streams |-> MaxStreams, block |-> BlockSize])

\* The rows Stream.fetch_where(Stream.end_at != NULL) returns.
LoadedStreams ==
    {i \in DOMAIN streams : streams[i].exists /\ streams[i].end_at # NULL}

\* to_watch after line 68: set.union returns a new set, which is dropped, so
\* to_watch stays the streamerids of the subscriptions.
ToWatch == {subs[i].streamerid : i \in SubIds}

\* load_subs: watching is the Streamer rows of to_watch; live_streams is the
\* dict comprehension over the fetched Stream rows, where of several rows of
\* one streamer the one fetched last stays (the fetch has no ORDER BY).
load_subs ==
    /\ watching' = SetToSeq(ToWatch \cap streamers)
    /\ \E cache \in [StreamerIds -> {NULL} \cup LoadedStreams] :
        /\ \A s \in StreamerIds :
            IF \E i \in LoadedStreams : streams[i].streamerid = s
            THEN cache[s] # NULL /\ streams[cache[s]].streamerid = s
            ELSE cache[s] = NULL
        /\ live_streams' = cache

\* cog_load: load_subs, then the poll task is created (block_i = 0, asleep).
cog_load ==
    /\ poll.pc = "unloaded"
    /\ loads < MaxLoads
    /\ loads' = loads + 1
    /\ load_subs
    /\ poll' = PollIdle("sleep")
    /\ UNCHANGED <<db, messages, errors, tasks, now, forked, scope, render>>

\* cog_unload with the units of event_tasks cancelled too.
cog_unload_cancel_units ==
    /\ poll.pc # "unloaded"
    /\ poll' = PollIdle("unloaded")
    /\ watching' = <<>>
    /\ live_streams' = [s \in StreamerIds |-> NULL]
    /\ tasks' = <<>>
    /\ UNCHANGED <<db, messages, errors, now, forked, loads, scope, render>>

\* cog_unload cancels the poll task where it is suspended; the units in
\* event_tasks are left alone. The cog object that is loaded next is a new
\* one: its caches are those of __init__.
cog_unload ==
    /\ poll.pc # "unloaded"
    /\ poll' = PollIdle("unloaded")
    /\ watching' = <<>>
    /\ live_streams' = [s \in StreamerIds |-> NULL]
    /\ UNCHANGED <<db, messages, errors, tasks, now, forked, loads, scope, render>>

\* ---------------------------------------------------------------- commands
\* A command runs while the cog is loaded.
Loaded == poll.pc # "unloaded"

\* What no action but the poller's changes.
kept == <<forked, loads, scope, render>>

\* streamalert_create_cmd with the watch list left as it is.
streamalert_create_cmd_unwatched(streamer, channel) ==
    /\ Loaded
    /\ streamers' = streamers \cup {streamer}
    /\ LET created == AlertChannel_create(subs, streamer, channel) IN
        /\ Len(created) <= scope.subs
        /\ subs' = created
    /\ UNCHANGED <<kept, streams, alerts, messages, errors, watching,
                   live_streams, poll, tasks, now>>

\* /streamalert create: Streamer.fetch_or_create, AlertChannel.create, then
\* the watch list entry (a dict assignment: a key already there keeps its place).
streamalert_create_cmd(streamer, channel) ==
    /\ Loaded
    /\ streamers' = streamers \cup {streamer}
    /\ LET created == AlertChannel_create(subs, streamer, channel) IN
        /\ Len(created) <= scope.subs
        /\ subs' = created
        /\ watching' = IF created # subs /\ streamer \notin Range(watching)
                       THEN Append(watching, streamer)
                       ELSE watching
    /\ UNCHANGED <<kept, streams, alerts, messages, errors, live_streams, poll, tasks, now>>

\* setting.value of a subscription's setting: the settings hold no value of
\* their own and read the column of the subscription's row, which is the
\* table's row as it is now.
SettingValue(subid, column) == subs[subid][column]

\* /streamalert pause, /streamalert unpause and the editor's pause button.
streamalert_pause_cmd(subid, paused) ==
    /\ Loaded
    /\ subid \in SubIds
    /\ subs' = [subs EXCEPT ![subid].paused = paused]
    /\ UNCHANGED <<kept, streamers, streams, alerts, messages, errors, watching,
                   live_streams, poll, tasks, now>>

\* streamalert_remove_cmd with the streamer taken off the watch list once its
\* last subscription is removed.
streamalert_remove_cmd_unwatch(subid) ==
    /\ Loaded
    /\ subid \in SubIds
    /\ subs' = [subs EXCEPT ![subid].exists = FALSE]
    /\ alerts' = CascadeAlerts(alerts, subid)
    /\ watching' =
        IF \E i \in SubIds \ {subid} : subs[i].streamerid = subs[subid].streamerid
        THEN watching
        ELSE SelectSeq(watching, LAMBDA s : s # subs[subid].streamerid)
    /\ UNCHANGED <<kept, streamers, streams, messages, errors,
                   live_streams, poll, tasks, now>>

\* /streamalert remove and the editor's delete button: the row goes, and its
\* stream_alerts rows with it; watching and live_streams are not touched.
streamalert_remove_cmd(subid) ==
    /\ Loaded
    /\ subid \in SubIds
    /\ subs' = [subs EXCEPT ![subid].exists = FALSE]
    /\ alerts' = CascadeAlerts(alerts, subid)
    /\ UNCHANGED <<kept, streamers, streams, messages, errors, watching,
                   live_streams, poll, tasks, now>>

\* The editor's ending-mode menu: "0" do nothing, "1" delete, "2" edit (which
\* turns end_delete off and opens the editor of the end message).
ending_mode_menu(subid, value) ==
    /\ Loaded
    /\ subid \in SubIds
    /\ subs' = CASE value = 0 -> [subs EXCEPT ![subid].end_delete = FALSE,
                                              ![subid].end_message = FALSE]
                 [] value = 1 -> [subs EXCEPT ![subid].end_delete = TRUE]
                 [] value = 2 -> [subs EXCEPT ![subid].end_delete = FALSE]
    /\ UNCHANGED <<kept, streamers, streams, alerts, messages, errors, watching,
                   live_streams, poll, tasks, now>>

\* AlertEndMessage.editor_callback: the editor of the end message saves a
\* message.
editor_callback(subid) ==
    /\ Loaded
    /\ subid \in SubIds
    /\ subs' = [subs EXCEPT ![subid].end_message = TRUE]
    /\ UNCHANGED <<kept, streamers, streams, alerts, messages, errors, watching,
                   live_streams, poll, tasks, now>>

\* The editor's channel menu.
channel_menu(subid, channel) ==
    /\ Loaded
    /\ subid \in SubIds
    /\ subs' = AlertChannel_write(subs, subid, channel)
    /\ UNCHANGED <<kept, streamers, streams, alerts, messages, errors, watching,
                   live_streams, poll, tasks, now>>


\* ---------------------------------------------------------------- poll_live
LiveKeys == {s \in StreamerIds : live_streams[s] # NULL}

\* blocks = [to_request[i:i+100] for i in range(0, len(to_request), 100)]
NumBlocks(to_request) == (Len(to_request) + scope.block - 1) \div scope.block

Block(to_request, i) ==
    SubSeq(to_request, i * scope.block + 1,
           IF (i + 1) * scope.block < Len(to_request)
           THEN (i + 1) * scope.block ELSE Len(to_request))

\* Where the loop goes once an iteration of the two for loops is over.
AfterIteration(started, ended) ==
    IF started = {} /\ ended = {} THEN "sleep" ELSE "loop"

\* A unit as asyncio.create_task(self.on_stream_start(stream_data)) or
\* (self.on_stream_end(stream_data)) makes it: nothing of it has run.
NewTask(kind, streamid) ==
    [kind |-> kind, stream |-> streamid, pc |-> "fetch", subbed |-> <<>>,
     channel |-> NULL, message |-> NULL, alert |-> NULL, delmsg |-> FALSE,
     endmsg |-> FALSE]

\* poll_live_request with started not reduced by the keys of live_streams.
poll_live_request_unfiltered ==
    /\ poll.pc = "sleep"
    /\ IF watching = <<>>
       THEN UNCHANGED poll
       ELSE LET block_i == (poll.block_i + 1) % NumBlocks(watching)
                block == Block(watching, block_i)
            IN \E raised \in BOOLEAN, streaming \in SUBSET Range(block) :
                IF raised
                THEN poll' = PollIdle("dead")
                ELSE LET started == streaming
                         ended == LiveKeys \ streaming
                     IN poll' = [pc |-> AfterIteration(started, ended),
                                 block_i |-> block_i, started |-> started,
                                 ended |-> ended, popped |-> NULL,
                                 block |-> block]
    /\ UNCHANGED <<kept, db, messages, errors, watching, live_streams, tasks, now>>

\* poll_live_request with ended taken among the streamers of the block that
\* was requested.
poll_live_request_scoped ==
    /\ poll.pc = "sleep"
    /\ IF watching = <<>>
       THEN UNCHANGED poll
       ELSE LET block_i == (poll.block_i + 1) % NumBlocks(watching)
                block == Block(watching, block_i)
            IN \E raised \in BOOLEAN, streaming \in SUBSET Range(block) :
                IF raised
                THEN poll' = PollIdle("dead")
                ELSE LET started == streaming \ LiveKeys
                         ended == (LiveKeys \cap Range(block)) \ streaming
                     IN poll' = [pc |-> AfterIteration(started, ended),
                                 block_i |-> block_i, started |-> started,
                                 ended |-> ended, popped |-> NULL,
                                 block |-> block]
    /\ UNCHANGED <<kept, db, messages, errors, watching, live_streams, tasks, now>>

\* poll_live_request with block_i not advanced.
poll_live_request_same_block ==
    /\ poll.pc = "sleep"
    /\ IF watching = <<>>
       THEN UNCHANGED poll
       ELSE LET block_i == poll.block_i % NumBlocks(watching)
                block == Block(watching, block_i)
            IN \E raised \in BOOLEAN, streaming \in SUBSET Range(block) :
                IF raised
                THEN poll' = PollIdle("dead")
                ELSE LET started == streaming \ LiveKeys
                         ended == LiveKeys \ streaming
                     IN poll' = [pc |-> AfterIteration(started, ended),
                                 block_i |-> block_i, started |-> started,
                                 ended |-> ended, popped |-> NULL,
                                 block |-> block]
    /\ UNCHANGED <<kept, db, messages, errors, watching, live_streams, tasks, now>>

\* poll_live_request without the test of an empty watch list: the modulo by
\* the number of blocks, which is zero, raises.
poll_live_request_unskipped ==
    /\ poll.pc = "sleep"
    /\ IF watching = <<>>
       THEN poll' = PollIdle("dead")
       ELSE LET block_i == (poll.block_i + 1) % NumBlocks(watching)
                block == Block(watching, block_i)
            IN \E raised \in BOOLEAN, streaming \in SUBSET Range(block) :
                IF raised
                THEN poll' = PollIdle("dead")
                ELSE LET started == streaming \ LiveKeys
                         ended == LiveKeys \ streaming
                     IN poll' = [pc |-> AfterIteration(started, ended),
                                 block_i |-> block_i, started |-> started,
                                 ended |-> ended, popped |-> NULL,
                                 block |-> block]
    /\ UNCHANGED <<kept, db, messages, errors, watching, live_streams, tasks, now>>

\* poll_live_request in a loop that catches what a pass raises and goes on
\* with the next pass.
poll_live_request_restarted ==
    /\ poll.pc \in {"sleep", "dead"}
    /\ IF watching = <<>>
       THEN poll' = [poll EXCEPT !.pc = "sleep"]
       ELSE LET block_i == (poll.block_i + 1) % NumBlocks(watching)
                block == Block(watching, block_i)
            IN \E raised \in BOOLEAN, streaming \in SUBSET Range(block) :
                IF raised
                THEN poll' = PollIdle("dead")
                ELSE LET started == streaming \ LiveKeys
                         ended == LiveKeys \ streaming
                     IN poll' = [pc |-> AfterIteration(started, ended),
                                 block_i |-> block_i, started |-> started,
                                 ended |-> ended, popped |-> NULL,
                                 block |-> block]
    /\ UNCHANGED <<kept, db, messages, errors, watching, live_streams, tasks, now>>

\* poll_live_request in a loop that gathers the units it forked before it
\* sleeps again.
poll_live_request_gathered ==
    /\ poll.pc = "sleep"
    /\ tasks = <<>>
    /\ IF watching = <<>>
       THEN UNCHANGED poll
       ELSE LET block_i == (poll.block_i + 1) % NumBlocks(watching)
                block == Block(watching, block_i)
            IN \E raised \in BOOLEAN, streaming \in SUBSET Range(block) :
                IF raised
                THEN poll' = PollIdle("dead")
                ELSE LET started == streaming \ LiveKeys
                         ended == LiveKeys \ streaming
                     IN poll' = [pc |-> AfterIteration(started, ended),
                                 block_i |-> block_i, started |-> started,
                                 ended |-> ended, popped |-> NULL,
                                 block |-> block]
    /\ UNCHANGED <<kept, db, messages, errors, watching, live_streams, tasks, now>>

\* One pass of the while loop from the sleep to the two set differences: an
\* empty watch list skips the pass; else the next block is requested from
\* Twitch, which answers with the ids of the block that are live, or raises
\* (nothing catches it: the task ends).
poll_live_request ==
    /\ poll.pc = "sleep"
    /\ IF watching = <<>>
       THEN UNCHANGED poll
       ELSE LET block_i == (poll.block_i + 1) % NumBlocks(watching)
                block == Block(watching, block_i)
            IN \E raised \in BOOLEAN, streaming \in SUBSET Range(block) :
                IF raised
                THEN poll' = PollIdle("dead")
                ELSE LET started == streaming \ LiveKeys
                         ended == LiveKeys \ streaming
                     IN poll' = [pc |-> AfterIteration(started, ended),
                                 block_i |-> block_i, started |-> started,
                                 ended |-> ended, popped |-> NULL,
                                 block |-> block]
    /\ UNCHANGED <<kept, db, messages, errors, watching, live_streams, tasks, now>>

\* for streamerid in started: Stream.create, the cache entry, the detached
\* on_stream_start unit. The row references its streamer: with the Streamer
\* row gone the INSERT raises (poll_live_raise).
poll_live_started ==
    /\ poll.pc = "loop"
    /\ Len(streams) < scope.streams
    /\ Len(tasks) < MaxTasks
    /\ \E streamerid \in poll.started \cap streamers :
        LET started == poll.started \ {streamerid} IN
        /\ streams' = Append(streams, [streamerid |-> streamerid, end_at |-> NULL,
                                     exists |-> TRUE])
        /\ live_streams' = [live_streams EXCEPT ![streamerid] = Len(streams) + 1]
        /\ tasks' = Append(tasks, NewTask("start", Len(streams) + 1))
        /\ poll' = [poll EXCEPT !.started = started,
                                !.pc = AfterIteration(started, poll.ended)]
    /\ forked' = Append(forked, [start |-> 1, end |-> 0])
    /\ UNCHANGED <<streamers, subs, alerts, messages, errors, watching, now,
                   loads, scope, render>>

\* for streamerid in ended: live_streams.pop(streamerid), up to the await of
\* the update.
poll_live_pop ==
    /\ poll.pc = "loop"
    /\ poll.started = {}
    /\ \E streamerid \in poll.ended :
        /\ poll' = [poll EXCEPT !.ended = poll.ended \ {streamerid},
                                !.popped = live_streams[streamerid],
                                !.pc = "update"]
        /\ live_streams' = [live_streams EXCEPT ![streamerid] = NULL]
    /\ UNCHANGED <<kept, db, messages, errors, watching, tasks, now>>

\* stream_data.update(end_at=utc_now()), then the detached on_stream_end unit;
\* a row deleted meanwhile is not there to update.
poll_live_update ==
    /\ poll.pc = "update"
    /\ now <= MaxClock
    /\ Len(tasks) < MaxTasks
    /\ streams' = IF streams[poll.popped].exists
                  THEN [streams EXCEPT ![poll.popped].end_at = now]
                  ELSE streams
    /\ now' = now + 1
    /\ tasks' = Append(tasks, NewTask("end", poll.popped))
    /\ poll' = [poll EXCEPT !.popped = NULL,
                            !.pc = AfterIteration(poll.started, poll.ended)]
    /\ forked' = [forked EXCEPT ![poll.popped].end = @ + 1]
    /\ UNCHANGED <<streamers, subs, alerts, messages, errors, watching,
                   live_streams, loads, scope, render>>


\* Stream.create or stream_data.update raises (the database is away): nothing
\* in poll_live catches it, the task ends where it is.
poll_live_raise ==
    /\ poll.pc \in {"loop", "update"}
    /\ poll' = PollIdle("dead")
    /\ UNCHANGED <<kept, db, messages, errors, watching, live_streams, tasks, now>>

\* ---------------------------------------------------------------- formatters
\* The pieces a message text is made of: a brace, or a word without braces.
\* The placeholder {display_name} is the three pieces "{", "display_name", "}".
TemplateAtoms == {"{", "}", "display_name", "login_name", "stream_end"}

\* The message texts of at most MaxTemplateLen pieces.
Templates ==
    UNION {[1..n -> TemplateAtoms] : n \in 0..MaxTemplateLen}

\* The messages a setting can hold: none, or a dict with a string leaf
\* (content) and a leaf that is not a string (tts).
MessageData ==
    {NoMessage, EmptyMessage} \cup
    {[none |-> FALSE, unset |-> FALSE, content |-> c, tts |-> b] :
        c \in Templates, b \in {TRUE}}

\* display_name and login_name of a Streamer row as Twitch gives them: words
\* without braces, which may read like the name of a placeholder.
DisplayNames == {"Alice", "login_name"}
LoginNames == {"alice"}

\* The mapping of AlertMessage.generate_formatter, by the word between the
\* braces of each key; str() of the timestamps is one word.
live_mapping(display_name, login_name) ==
    [k \in {"display_name", "login_name", "channel_link", "stream_start"} |->
        CASE k = "display_name" -> <<display_name>>
          [] k = "login_name" -> <<login_name>>
          [] k = "channel_link" -> <<"https://www.twitch.tv/", login_name>>
          [] k = "stream_start" -> <<"1000">>]

\* The mapping of AlertEndMessage.generate_formatter: the same and stream_end.
end_mapping(display_name, login_name) ==
    [k \in {"display_name", "login_name", "channel_link", "stream_start",
            "stream_end"} |->
        IF k = "stream_end" THEN <<"2000">>
        ELSE live_mapping(display_name, login_name)[k]]

RECURSIVE replace_multiple(_, _)
\* utils.lib.replace_multiple: every occurrence of a key is replaced by its
\* value in one pass from the left; what a value puts in is not looked at
\* again.
replace_multiple(format_string, mapping) ==
    IF format_string = <<>> THEN <<>>
    ELSE IF /\ Len(format_string) >= 3
            /\ format_string[1] = "{"
            /\ format_string[2] \in DOMAIN mapping
            /\ format_string[3] = "}"
         THEN mapping[format_string[2]]
                \o replace_multiple(SubSeq(format_string, 4, Len(format_string)),
                                    mapping)
         ELSE <<Head(format_string)>>
                \o replace_multiple(Tail(format_string), mapping)

\* utils.lib.recurse_map with the formatter's lambda: the string leaves are
\* replaced, the other leaves are left.
recurse_map(data_dict, mapping) ==
    [data_dict EXCEPT !.content = replace_multiple(@, mapping)]

\* formatter(data_dict) of generate_formatter: None for no message, else the
\* dict with its leaves replaced.
formatter(data_dict, mapping) ==
    IF data_dict.none THEN NoMessage ELSE recurse_map(data_dict, mapping)

\* Rendered with the dict that is rendered kept by the setting: the next
\* rendering starts from what this one made of it.
Rendered_in_place(mapping) ==
    /\ Len(rendered) < MaxRenders
    /\ rendered' = Append(rendered,
            [mapping |-> mapping, out |-> formatter(message_data, mapping)])
    /\ message_data' = formatter(message_data, mapping)
    /\ UNCHANGED <<db, messages, errors, watching, live_streams, poll, tasks,
                   now, forked, loads, scope>>

\* formatted = await formatter(setting.value): .value makes the dict anew
\* from the column's text, and that dict is what the formatter writes into;
\* the setting keeps its text.
Rendered(mapping) ==
    /\ Len(rendered) < MaxRenders
    /\ rendered' = Append(rendered,
            [mapping |-> mapping, out |-> formatter(message_data, mapping)])
    /\ message_data' = message_data
    /\ UNCHANGED <<db, messages, errors, watching, live_streams, poll, tasks,
                   now, forked, loads, scope>>

\* AlertMessage._default
DefaultLive ==
    [none |-> FALSE, unset |-> FALSE, tts |-> FALSE,
     content |-> <<"**", "{", "display_name", "}", "** just went live at ",
                   "{", "channel_link", "}">>]

\* live_message.value: the message of the column, and the default of
\* AlertMessage for a column that is NULL.
live_message_value == IF message_data.unset THEN DefaultLive ELSE message_data

\* MessageSetting.value_to_args(subscriptionid, formatted) and args.send_args:
\* the arguments of channel.send. What they make of a formatter's None is not
\* said: they raise, or they give arguments.
value_to_args(formatted) ==
    IF formatted.none THEN {"raise", "args"} ELSE {"args"}

\* sub_alert from the paused test to channel.send: the live message is
\* rendered for the streamer.
sub_alert_format(display_name, login_name) ==
    Rendered(live_mapping(display_name, login_name))

\* sub_resolve on the edit branch: the end message is rendered.
sub_resolve_format(display_name, login_name) ==
    Rendered(end_mapping(display_name, login_name))

\* ---------------------------------------------------------------- the units
Remove(seq, t) == SubSeq(seq, 1, t - 1) \o SubSeq(seq, t + 1, Len(seq))

\* AlertChannel.fetch_where(streamerid=uid): the subscriptions of the stream's
\* streamer.
Subbed(streamid) ==
    SetToSeq({i \in SubIds : subs[i].streamerid = streams[streamid].streamerid})

\* The for loop of on_stream_start / on_stream_end goes to its next
\* subscription; after the last one the unit is done and leaves event_tasks.
NextSub(t, first) ==
    IF Len(tasks[t].subbed) <= 1
    THEN Remove(tasks, t)
    ELSE [tasks EXCEPT ![t] = [NewTask(tasks[t].kind, tasks[t].stream) EXCEPT
                                  !.pc = first, !.subbed = Tail(tasks[t].subbed)]]

\* Raise with the exception logged and the loop going on, as it does for an
\* HTTPException.
Raise_swallowed(t) ==
    NextSub(t, IF tasks[t].kind = "start" THEN "channel" ELSE "check")

\* Raise with the units in one group, where an exception of one cancels the
\* others.
Raise_group(t) == <<>>

\* An exception leaves the unit (the handler of on_stream_start / on_stream_end
\* logs it and raises it again): the unit is over, the rest of the batch is
\* not run.
Raise(t) == Remove(tasks, t)

\* subscription_error with nothing kept of the call.
subscription_error_unrecorded(t, err_msg) == errors

\* subscription_error(subscription, stream_data, err_msg)
subscription_error(t, err_msg) ==
    errors \cup {<<tasks[t].stream, Head(tasks[t].subbed), err_msg>>}

\* on_stream_start up to the for loop: the subscriptions are fetched.
on_stream_start(t) ==
    /\ tasks[t].kind = "start"
    /\ tasks[t].pc = "fetch"
    /\ LET subbed == Subbed(tasks[t].stream) IN
        tasks' = IF subbed = <<>>
                 THEN Remove(tasks, t)
                 ELSE [tasks EXCEPT ![t].subbed = subbed, ![t].pc = "channel"]
    /\ UNCHANGED <<kept, db, messages, errors, watching, live_streams, poll, now>>

\* sub_alert up to the await of Streamer.fetch: the channel and the
\* permissions in it, which are Discord's to say.
sub_alert_channel(t) ==
    /\ tasks[t].kind = "start"
    /\ tasks[t].pc = "channel"
    /\ \E found \in {"gone", "forbidden", "ok"} :
        CASE found = "gone" ->
                /\ errors' = subscription_error(t, "Subscription channel no longer exists.")
                /\ tasks' = NextSub(t, "channel")
          [] found = "forbidden" ->
                /\ errors' = subscription_error(t, "Insufficient permissions to post alert message.")
                /\ tasks' = NextSub(t, "channel")
          [] found = "ok" ->
                /\ errors' = errors
                /\ tasks' = [tasks EXCEPT ![t].pc = "send",
                                          ![t].channel = subs[Head(tasks[t].subbed)].channelid]
    /\ UNCHANGED <<kept, db, messages, watching, live_streams, poll, now>>

\* ShouldSend with the streamer not fetched again.
ShouldSend_unfetched(subid, streamid) ==
    ~subs[subid].paused

\* ShouldSend with paused read from a copy of the row as it was created, not
\* from the row as it is.
ShouldSend_as_created(subid, streamid) ==
    /\ streams[streamid].streamerid \in streamers
    /\ ~NewSub(subs[subid].streamerid, subs[subid].channelid).paused

\* ShouldSend with the paused setting not read.
ShouldSend_unpaused(subid, streamid) ==
    streams[streamid].streamerid \in streamers

\* Whether sub_alert goes on to channel.send: the streamer row is still there
\* and the subscription is not paused.
ShouldSend(subid, streamid) ==
    /\ streams[streamid].streamerid \in streamers
    /\ ~subs[subid].paused

\* sub_alert_send with the alert stored whether the send went through or not.
sub_alert_send_unchecked(t) ==
    /\ tasks[t].kind = "start"
    /\ tasks[t].pc = "send"
    /\ LET subid == Head(tasks[t].subbed)
           streamid == tasks[t].stream
       IN IF ~ShouldSend(subid, streamid)
          THEN /\ tasks' = NextSub(t, "channel")
               /\ UNCHANGED <<messages, errors>>
          ELSE \E sent \in BOOLEAN :
                IF sent
                THEN /\ messages' = Append(messages,
                            [channelid |-> tasks[t].channel, streamid |-> streamid,
                             subid |-> subid, deleted |-> FALSE, edited |-> FALSE,
                             deletes |-> 0, edits |-> 0])
                     /\ tasks' = [tasks EXCEPT ![t].pc = "store",
                                               ![t].message = Len(messages) + 1]
                     /\ errors' = errors
                ELSE /\ errors' = subscription_error(t, "Failed to post live alert.")
                     /\ tasks' = [tasks EXCEPT ![t].pc = "store"]
                     /\ messages' = messages
    /\ UNCHANGED <<kept, db, watching, live_streams, poll, now>>

\* sub_alert_send with a refused send ending the whole unit, not the one
\* subscription.
sub_alert_send_abort(t) ==
    /\ tasks[t].kind = "start"
    /\ tasks[t].pc = "send"
    /\ LET subid == Head(tasks[t].subbed)
           streamid == tasks[t].stream
       IN IF ~ShouldSend(subid, streamid)
          THEN /\ tasks' = NextSub(t, "channel")
               /\ UNCHANGED <<messages, errors>>
          ELSE \E sent \in BOOLEAN :
                IF sent
                THEN /\ messages' = Append(messages,
                            [channelid |-> tasks[t].channel, streamid |-> streamid,
                             subid |-> subid, deleted |-> FALSE, edited |-> FALSE,
                             deletes |-> 0, edits |-> 0])
                     /\ tasks' = [tasks EXCEPT ![t].pc = "store",
                                               ![t].message = Len(messages) + 1]
                     /\ errors' = errors
                ELSE /\ errors' = subscription_error(t, "Failed to post live alert.")
                     /\ tasks' = Raise(t)
                     /\ messages' = messages
    /\ UNCHANGED <<kept, db, watching, live_streams, poll, now>>

\* sub_alert from the result of Streamer.fetch to the result of channel.send:
\* a streamer that is gone or a paused subscription ends the call quietly;
\* else the live message is rendered, the arguments are made of it (which
\* may raise: no handler but on_stream_start's) and the message is sent,
\* which Discord may refuse (HTTPException).
sub_alert_send(t) ==
    /\ tasks[t].kind = "start"
    /\ tasks[t].pc = "send"
    /\ LET subid == Head(tasks[t].subbed)
           streamid == tasks[t].stream
           formatted == formatter(live_message_value, live_mapping("Alice", "alice"))
       IN IF ~ShouldSend(subid, streamid)
          THEN /\ tasks' = NextSub(t, "channel")
               /\ UNCHANGED <<messages, errors>>
          ELSE \E args \in value_to_args(formatted), sent \in BOOLEAN :
                IF args = "raise"
                THEN /\ tasks' = Raise(t)
                     /\ UNCHANGED <<messages, errors>>
                ELSE IF sent
                THEN /\ messages' = Append(messages,
                            [channelid |-> tasks[t].channel, streamid |-> streamid,
                             subid |-> subid, deleted |-> FALSE, edited |-> FALSE,
                             deletes |-> 0, edits |-> 0])
                     /\ tasks' = [tasks EXCEPT ![t].pc = "store",
                                               ![t].message = Len(messages) + 1]
                     /\ errors' = errors
                ELSE /\ errors' = subscription_error(t, "Failed to post live alert.")
                     /\ tasks' = NextSub(t, "channel")
                     /\ messages' = messages
    /\ UNCHANGED <<kept, db, watching, live_streams, poll, now>>

\* sub_alert_store with the call starting over after the row is stored: the
\* subscription is sent to once more.
sub_alert_store_again(t) ==
    /\ tasks[t].kind = "start"
    /\ tasks[t].pc = "store"
    /\ alerts' = Append(alerts,
            [streamid |-> tasks[t].stream, subscriptionid |-> Head(tasks[t].subbed),
             messageid |-> tasks[t].message, resolved_at |-> NULL, exists |-> TRUE])
    /\ tasks' = [tasks EXCEPT ![t].pc = "send"]
    /\ UNCHANGED <<kept, streamers, subs, streams, messages, errors, watching,
                   live_streams, poll, now>>

\* sub_alert after the send: StreamAlert.create. The row references the
\* subscription and the stream; with either deleted meanwhile the INSERT
\* raises.
sub_alert_store(t) ==
    /\ tasks[t].kind = "start"
    /\ tasks[t].pc = "store"
    /\ LET subid == Head(tasks[t].subbed) IN
        IF subid \in SubIds /\ streams[tasks[t].stream].exists
        THEN /\ alerts' = Append(alerts,
                    [streamid |-> tasks[t].stream, subscriptionid |-> subid,
                     messageid |-> tasks[t].message, resolved_at |-> NULL,
                     exists |-> TRUE])
             /\ tasks' = NextSub(t, "channel")
        ELSE /\ alerts' = alerts
             /\ tasks' = Raise(t)
    /\ UNCHANGED <<kept, streamers, subs, streams, messages, errors, watching,
                   live_streams, poll, now>>


\* on_stream_end up to the for loop: the subscriptions are fetched.
on_stream_end(t) ==
    /\ tasks[t].kind = "end"
    /\ tasks[t].pc = "fetch"
    /\ LET subbed == Subbed(tasks[t].stream) IN
        tasks' = IF subbed = <<>>
                 THEN Remove(tasks, t)
                 ELSE [tasks EXCEPT ![t].subbed = subbed, ![t].pc = "check"]
    /\ UNCHANGED <<kept, db, messages, errors, watching, live_streams, poll, now>>

\* StreamAlert.fetch_where(streamid=..., subscriptionid=...)
AlertsOf(streamid, subid) ==
    {a \in AlertIds : /\ alerts[a].streamid = streamid
                      /\ alerts[a].subscriptionid = subid}

\* Unresolved with the test of resolved_at left out.
Unresolved_unchecked(a) == TRUE

\* Whether sub_resolve has an alert to resolve: the row it holds is not
\* resolved yet.
Unresolved(a) == alerts[a].resolved_at = NULL

\* WantsMessage with the message looked for under every end policy.
WantsMessage_always(subid) == TRUE

\* Whether sub_resolve looks for the posted message: end_delete is set or an
\* end message is configured.
WantsMessage(subid) == subs[subid].end_delete \/ subs[subid].end_message

\* sub_resolve_check with a row stored, as resolved, for a pair that has
\* none.
sub_resolve_check_stored(t) ==
    /\ tasks[t].kind = "end"
    /\ tasks[t].pc = "check"
    /\ LET subid == Head(tasks[t].subbed)
           found == AlertsOf(tasks[t].stream, subid)
       IN IF found = {}
          THEN /\ tasks' = NextSub(t, "check")
               /\ alerts' = Append(alerts,
                      [streamid |-> tasks[t].stream, subscriptionid |-> subid,
                       messageid |-> NULL, resolved_at |-> now, exists |-> TRUE])
          ELSE /\ alerts' = alerts
               /\ \E a \in found, channel \in BOOLEAN :
                    tasks' =
                        IF ~Unresolved(a)
                        THEN NextSub(t, "check")
                        ELSE [tasks EXCEPT
                                ![t].alert = a,
                                ![t].delmsg = subs[subid].end_delete,
                                ![t].endmsg = subs[subid].end_message,
                                ![t].channel = subs[subid].channelid,
                                ![t].pc = IF WantsMessage(subid) /\ channel
                                          THEN "locate" ELSE "save"]
    /\ UNCHANGED <<kept, streamers, subs, streams, messages, errors, watching,
                   live_streams, poll, now>>

\* sub_resolve from the result of the fetch to the await of fetch_message (or
\* of the update): no alert, or an alert already resolved, ends the call;
\* else the two settings are read and the channel is looked up, which is
\* Discord's to say.
sub_resolve_check(t) ==
    /\ tasks[t].kind = "end"
    /\ tasks[t].pc = "check"
    /\ LET subid == Head(tasks[t].subbed)
           found == AlertsOf(tasks[t].stream, subid)
       IN IF found = {}
          THEN tasks' = NextSub(t, "check")
          ELSE \E a \in found, channel \in BOOLEAN :
                tasks' =
                    IF ~Unresolved(a)
                    THEN NextSub(t, "check")
                    ELSE [tasks EXCEPT
                            ![t].alert = a,
                            ![t].delmsg = subs[subid].end_delete,
                            ![t].endmsg = subs[subid].end_message,
                            ![t].channel = subs[subid].channelid,
                            ![t].pc = IF WantsMessage(subid) /\ channel
                                      THEN "locate" ELSE "save"]
    /\ UNCHANGED <<kept, db, messages, errors, watching, live_streams, poll, now>>

\* EndPolicy with the two branches tested in the other order: an end message
\* wins over end_delete.
EndPolicy_edit_first(delmsg) == "edit"

\* Which branch sub_resolve takes once the message is located.
EndPolicy(delmsg) == IF delmsg THEN "delete" ELSE "edit"

\* sub_resolve from the result of channel.fetch_message: a message that is
\* not in the channel, or that Discord will not give (HTTPException), leaves
\* message = None; a message found is deleted when end_delete was set, else
\* edited.
sub_resolve_locate(t) ==
    /\ tasks[t].kind = "end"
    /\ tasks[t].pc = "locate"
    /\ LET m == alerts[tasks[t].alert].messageid IN
       \E fetched \in BOOLEAN :
        tasks' = IF /\ fetched
                    /\ ~messages[m].deleted
                    /\ messages[m].channelid = tasks[t].channel
                 THEN [tasks EXCEPT ![t].message = m,
                                    ![t].pc = EndPolicy(tasks[t].delmsg)]
                 ELSE [tasks EXCEPT ![t].pc = "save"]
    /\ UNCHANGED <<kept, db, messages, errors, watching, live_streams, poll, now>>

\* sub_resolve_delete with the HTTPException of a refused delete not caught:
\* it leaves sub_resolve before the alert is saved.
sub_resolve_delete_uncaught(t) ==
    /\ tasks[t].kind = "end"
    /\ tasks[t].pc = "delete"
    /\ \E deleted \in BOOLEAN :
        /\ messages' = [messages EXCEPT
                            ![tasks[t].message].deletes = @ + 1,
                            ![tasks[t].message].deleted = @ \/ deleted]
        /\ tasks' = IF deleted
                    THEN [tasks EXCEPT ![t].pc = "save"]
                    ELSE NextSub(t, "check")
    /\ UNCHANGED <<kept, db, errors, watching, live_streams, poll, now>>

\* sub_resolve on the delete branch: message.delete(), which Discord may
\* refuse (HTTPException, logged).
sub_resolve_delete(t) ==
    /\ tasks[t].kind = "end"
    /\ tasks[t].pc = "delete"
    /\ \E deleted \in BOOLEAN :
        messages' = [messages EXCEPT
                        ![tasks[t].message].deletes = @ + 1,
                        ![tasks[t].message].deleted = @ \/ deleted]
    /\ tasks' = [tasks EXCEPT ![t].pc = "save"]
    /\ UNCHANGED <<kept, db, errors, watching, live_streams, poll, now>>

\* Whether the edit branch gets as far as message.edit: the formatter reads
\* streamer.display_name, and returns None for a value that is not set;
\* either raises out of sub_resolve. edit_setting holds the value read when
\* the setting was made, before the awaits.
CanFormat(t) ==
    /\ streams[tasks[t].stream].streamerid \in streamers
    /\ tasks[t].endmsg

\* sub_resolve on the edit branch, from the result of Streamer.fetch to the
\* result of message.edit, which Discord may refuse (HTTPException, logged).
sub_resolve_edit(t) ==
    /\ tasks[t].kind = "end"
    /\ tasks[t].pc = "edit"
    /\ IF CanFormat(t)
       THEN \E edited \in BOOLEAN :
             /\ messages' = [messages EXCEPT
                     ![tasks[t].message].edits = @ + 1,
                     ![tasks[t].message].edited =
                         @ \/ (edited /\ ~messages[tasks[t].message].deleted)]
             /\ tasks' = [tasks EXCEPT ![t].pc = "save"]
       ELSE /\ messages' = messages
            /\ tasks' = Raise(t)
    /\ UNCHANGED <<kept, db, errors, watching, live_streams, poll, now>>

\* alert.update(resolved_at=utc_now()); a row deleted meanwhile is not there
\* to update.
sub_resolve_save(t) ==
    /\ tasks[t].kind = "end"
    /\ tasks[t].pc = "save"
    /\ now <= MaxClock
    /\ alerts' = IF alerts[tasks[t].alert].exists
                 THEN [alerts EXCEPT ![tasks[t].alert].resolved_at = now]
                 ELSE alerts
    /\ now' = now + 1
    /\ tasks' = NextSub(t, "check")
    /\ UNCHANGED <<kept, streamers, subs, streams, messages, errors, watching,
                   live_streams, poll>>

\* on_stream_start called once more for a Stream row, by a caller other than
\* the poller (the poller calls it once, where it creates the row).
redispatch(streamid) ==
    /\ Loaded
    /\ Len(tasks) < MaxTasks
    /\ forked[streamid].start < MaxDispatches
    /\ tasks' = Append(tasks, NewTask("start", streamid))
    /\ forked' = [forked EXCEPT ![streamid].start = @ + 1]
    /\ UNCHANGED <<db, messages, errors, watching, live_streams, poll, now,
                   loads, scope, render>>

\* ---------------------------------------------------------------- the system
Create == \E s \in StreamerIds, c \in ChannelIds : streamalert_create_cmd(s, c)
Pause == \E i \in DOMAIN subs, p \in BOOLEAN : streamalert_pause_cmd(i, p)
Delete == \E i \in DOMAIN subs : streamalert_remove_cmd(i)
EndingMode == \E i \in DOMAIN subs, v \in 0..2 : ending_mode_menu(i, v)
EndMessage == \E i \in DOMAIN subs : editor_callback(i)
Channel == \E i \in DOMAIN subs, c \in ChannelIds : channel_menu(i, c)

Command == Create \/ Pause \/ Delete \/ EndingMode \/ EndMessage \/ Channel

Poller ==
    \/ cog_load
    \/ cog_unload
    \/ poll_live_request
    \/ poll_live_started
    \/ poll_live_pop
    \/ poll_live_update
    \/ poll_live_raise

Dispatch ==
    \E t \in DOMAIN tasks :
        \/ on_stream_start(t)
        \/ sub_alert_channel(t)
        \/ sub_alert_send(t)
        \/ sub_alert_store(t)

Resolve ==
    \E t \in DOMAIN tasks :
        \/ on_stream_end(t)
        \/ sub_resolve_check(t)
        \/ sub_resolve_locate(t)
        \/ sub_resolve_delete(t)
        \/ sub_resolve_edit(t)
        \/ sub_resolve_save(t)

\* The resolve unit where no subscription has an end policy: the message is
\* never looked for.
ResolvePlain ==
    \E t \in DOMAIN tasks :
        \/ on_stream_end(t)
        \/ sub_resolve_check(t)
        \/ sub_resolve_save(t)

Redispatch == \E i \in DOMAIN streams : redispatch(i)

\* The whole system.
Next == Command \/ Poller \/ Dispatch \/ Resolve

Spec == Init /\ [][Next]_vars

\* One load of the cog, then streams that start and end under subscriptions
\* that are created, paused and removed.
NextDispatch ==
    \/ Create \/ Pause \/ Delete
    \/ cog_load \/ poll_live_request \/ poll_live_started
    \/ poll_live_pop \/ poll_live_update
    \/ Dispatch \/ ResolvePlain

SpecDispatch ==
    InitIn([subs |-> MaxSubs, streams |-> FewStreams, block |-> BlockSize]) /\ [][NextDispatch]_vars

\* Streams that start, with on_stream_start also called by other callers.
NextRedispatch ==
    \/ Create \/ Delete
    \/ cog_load \/ poll_live_request \/ poll_live_started
    \/ Dispatch \/ Redispatch

SpecRedispatch ==
    InitIn([subs |-> MaxSubs, streams |-> FewStreams, block |-> BlockSize]) /\ [][NextRedispatch]_vars

\* One subscription and one stream, under every command and across reloads of
\* the cog.
SpecResolve ==
    InitIn([subs |-> FewSubs, streams |-> FewStreams, block |-> BlockSize]) /\ [][Next]_vars

\* The commands alone.
NextCommands == cog_load \/ Command

SpecCommands == Init /\ [][NextCommands]_vars

\* The poller and its units under subscriptions that are only created: every
\* streamer may go live, and a pass of the loop may raise.
NextPoll ==
    \/ Create
    \/ cog_load \/ poll_live_request \/ poll_live_started
    \/ poll_live_pop \/ poll_live_update \/ poll_live_raise
    \/ Dispatch \/ ResolvePlain

\* The watch list in one block.
SpecStarts ==
    /\ InitIn([subs |-> MaxSubs, streams |-> MaxStreams, block |-> WideBlock])
    /\ [][NextPoll]_vars

\* The watch list in blocks of one streamer.
SpecPages ==
    /\ InitIn([subs |-> MaxSubs, streams |-> MaxStreams, block |-> BlockSize])
    /\ [][NextPoll]_vars

\* The event loop runs every task that can run: the poller when its sleep,
\* its request or its statement is over, and the units.
FairPoll ==
    /\ WF_vars(poll_live_request)
    /\ WF_vars(poll_live_started)
    /\ WF_vars(poll_live_pop)
    /\ WF_vars(poll_live_update)
    /\ WF_vars(Dispatch)
    /\ WF_vars(ResolvePlain)

\* The poller and its units, scheduled fairly, with the watch list in one
\* block.
SpecWatch ==
    /\ InitIn([subs |-> MaxSubs, streams |-> MaxStreams, block |-> WideBlock])
    /\ [][NextPoll]_vars
    /\ FairPoll

\* The poller and its units under subscriptions whose live message is the
\* text of a dict with no key.
SpecEmpty ==
    /\ InitOf([subs |-> MaxSubs, streams |-> FewStreams, block |-> BlockSize],
              EmptyMessage)
    /\ [][NextPoll]_vars

\* The formatters alone, over every message a setting can hold.
NextFormat ==
    \/ \E d \in DisplayNames, l \in LoginNames : sub_alert_format(d, l)
    \/ \E d \in DisplayNames, l \in LoginNames : sub_resolve_format(d, l)

SpecFormat ==
    /\ \E data \in MessageData : InitOf([subs |-> 0, streams |-> 0, block |-> BlockSize], data)
    /\ [][NextFormat]_vars

Vanish == \E s \in StreamerIds : Streamer_delete(s)

\* One load of the cog, with Streamer rows that are deleted under the poller
\* and its units, and end policies that are set.
NextVanish ==
    \/ Create \/ Vanish \/ EndingMode \/ EndMessage
    \/ cog_load \/ poll_live_request \/ poll_live_started
    \/ poll_live_pop \/ poll_live_update \/ poll_live_raise
    \/ Dispatch \/ Resolve

SpecVanish ==
    /\ InitIn([subs |-> MaxSubs, streams |-> FewStreams, block |-> BlockSize])
    /\ [][NextVanish]_vars

\* One subscription that is created and removed, under a poller that runs
\* over two streams and across reloads of the cog.
NextReload ==
    \/ Create \/ Delete
    \/ cog_load \/ cog_unload
    \/ poll_live_request \/ poll_live_started
    \/ poll_live_pop \/ poll_live_update \/ poll_live_raise
    \/ Dispatch \/ ResolvePlain

SpecReload ==
    /\ InitIn([subs |-> FewSubs, streams |-> MaxStreams, block |-> WideBlock])
    /\ [][NextReload]_vars

\* One subscription with an end policy, under Streamer rows and subscriptions
\* that are deleted while the units of two streams are in flight.
NextRaise ==
    \/ Create \/ Delete \/ Vanish \/ EndingMode \/ EndMessage
    \/ cog_load
    \/ poll_live_request \/ poll_live_started
    \/ poll_live_pop \/ poll_live_update \/ poll_live_raise
    \/ Dispatch \/ Resolve

SpecRaise ==
    /\ InitIn([subs |-> FewSubs, streams |-> MaxStreams, block |-> WideBlock])
    /\ [][NextRaise]_vars

\* ================================================================ claims
\* The unit at place t is, after the step, still in flight and at the same
\* subscription, at one of the positions pcs.
StaysAt(t, pcs) ==
    /\ Len(tasks') = Len(tasks)
    /\ tasks'[t].stream = tasks[t].stream
    /\ tasks'[t].subbed = tasks[t].subbed
    /\ tasks'[t].pc \in pcs

\* The unit at place t has, after the step, left its subscription without
\* raising: it is at the next subscription of its batch, or, after the last
\* one, done.
GoesOn(t, first) ==
    IF Len(tasks[t].subbed) > 1
    THEN /\ Len(tasks') = Len(tasks)
         /\ tasks'[t].stream = tasks[t].stream
         /\ tasks'[t].subbed = Tail(tasks[t].subbed)
         /\ tasks'[t].pc = first
    ELSE Len(tasks') = Len(tasks) - 1

Pairs == (DOMAIN streams) \X (DOMAIN subs)

C2_ResolveTwice ==
    [][\A t \in DOMAIN tasks :
        /\ (/\ sub_resolve_check(t)
            /\ \E a \in AlertsOf(tasks[t].stream, Head(tasks[t].subbed)) : TRUE
            /\ \A a \in AlertsOf(tasks[t].stream, Head(tasks[t].subbed)) :
                    alerts[a].resolved_at # NULL)
           => /\ messages' = messages
              /\ alerts' = alerts
              /\ GoesOn(t, "check")
        /\ (sub_resolve_save(t) /\ alerts[tasks[t].alert].exists)
           => alerts'[tasks[t].alert].resolved_at # NULL
      ]_vars

\* A stream was ended twice, both resolve units are over, and the posted
\* message of its resolved alert was deleted or edited by one call only.
C2_ResolvedTwice ==
    \E a \in AlertIds :
        /\ alerts[a].resolved_at # NULL
        /\ forked[alerts[a].streamid].end = 2
        /\ tasks = <<>>
        /\ messages[alerts[a].messageid].deletes
             + messages[alerts[a].messageid].edits = 1

\* C3: the start-transition creates the open Stream row and caches it whatever
\* the subscriptions' settings are, and sub_alert for a paused subscription
\* sends nothing, stores no Alert row, records no error and is over.
C3_PausedNoAlert ==
    [][/\ poll_live_started
          => /\ Len(streams') = Len(streams) + 1
             /\ streams'[Len(streams')].end_at = NULL
             /\ live_streams'[streams'[Len(streams')].streamerid] = Len(streams')
       /\ \A t \in DOMAIN tasks :
            (sub_alert_send(t) /\ subs[Head(tasks[t].subbed)].paused)
            => /\ messages' = messages
               /\ alerts' = alerts
               /\ errors' = errors
               /\ GoesOn(t, "channel")
      ]_vars

\* A stream is live in the cache, its dispatch unit is over, the only
\* subscription of its streamer is paused, and nothing was sent or stored.
C3_PausedStream ==
    \E s \in StreamerIds :
        /\ live_streams[s] # NULL
        /\ tasks = <<>>
        /\ \E i \in SubIds : subs[i].streamerid = s
        /\ \A i \in SubIds : subs[i].streamerid = s => subs[i].paused
        /\ messages = <<>>
        /\ alerts = <<>>
        /\ errors = {}

\* C4, as the spec states it: a call of sub_resolve for an unresolved alert
\* with end_delete set and an end message configured has, when it saves,
\* called delete on the posted message and never edit.
C4_DeleteAttempted ==
    [][\A t \in DOMAIN tasks :
        (/\ sub_resolve_save(t)
         /\ tasks[t].delmsg
         /\ tasks[t].endmsg)
        => /\ messages[alerts[tasks[t].alert].messageid].deletes > 0
           /\ messages[alerts[tasks[t].alert].messageid].edits = 0
      ]_vars

\* C4, amended: with end_delete set, a call of sub_resolve that locates the
\* posted message goes on to delete it, and calls delete once; whether it
\* locates it or not, the call never edits.
C4_DeleteIfLocated ==
    [][\A t \in DOMAIN tasks :
        /\ (sub_resolve_locate(t) /\ tasks[t].delmsg)
           => \/ StaysAt(t, {"delete"}) /\ tasks'[t].message # NULL
              \/ StaysAt(t, {"save"}) /\ tasks'[t].message = NULL
        /\ sub_resolve_delete(t)
           => /\ tasks[t].delmsg
              /\ messages'[tasks[t].message].deletes
                   = messages[tasks[t].message].deletes + 1
              /\ messages'[tasks[t].message].edits
                   = messages[tasks[t].message].edits
        /\ sub_resolve_edit(t) => ~tasks[t].delmsg
      ]_vars

\* An alert of a subscription with end_delete set and an end message
\* configured is resolved, and its message was deleted, not edited.
C4_Deleted ==
    \E a \in AlertIds :
        /\ alerts[a].resolved_at # NULL
        /\ subs[alerts[a].subscriptionid].end_delete
        /\ subs[alerts[a].subscriptionid].end_message
        /\ messages[alerts[a].messageid].deleted
        /\ messages[alerts[a].messageid].deletes = 1
        /\ messages[alerts[a].messageid].edits = 0

\* C5: once sub_resolve holds an unresolved alert, every outcome of the end
\* policy (channel gone, message not located, delete or edit refused or done)
\* leads to the save, and the save sets resolved_at of the alert.
C5_AlwaysResolved ==
    [][\A t \in DOMAIN tasks :
        /\ sub_resolve_check(t)
           => \/ GoesOn(t, "check") /\ tasks[t].alert = NULL
              \/ StaysAt(t, {"locate", "save"})
        /\ sub_resolve_locate(t) => StaysAt(t, {"delete", "edit", "save"})
        /\ sub_resolve_delete(t) => StaysAt(t, {"save"})
        /\ sub_resolve_edit(t) => StaysAt(t, {"save"})
        /\ (sub_resolve_save(t) /\ alerts[tasks[t].alert].exists)
           => /\ alerts'[tasks[t].alert].resolved_at = now
              /\ now # NULL
      ]_vars

\* An alert is resolved although the delete of its message was refused.
C5_ResolvedAfterFailure ==
    \E a \in AlertIds :
        /\ alerts[a].resolved_at # NULL
        /\ messages[alerts[a].messageid].deletes = 1
        /\ ~messages[alerts[a].messageid].deleted

\* C6: a send that Discord refuses records a subscription error for the
\* subscription and stores no Alert row for it, the rows stored before stay,
\* and the unit goes on to the next subscription of its batch.
C6_SendFailureIsolated ==
    [][\A t \in DOMAIN tasks :
        (sub_alert_send(t) /\ messages' = messages
            /\ ShouldSend(Head(tasks[t].subbed), tasks[t].stream))
        => /\ <<tasks[t].stream, Head(tasks[t].subbed),
                "Failed to post live alert.">> \in errors'
           /\ alerts' = alerts
           /\ GoesOn(t, "channel")
      ]_vars

\* In one batch the send for the first subscription was refused and the
\* second subscription has its Alert row.
C6_OneFailedOneSent ==
    \E st \in DOMAIN streams : \E i, j \in SubIds :
        /\ i < j
        /\ <<st, i, "Failed to post live alert.">> \in errors
        /\ AlertsOf(st, i) = {}
        /\ AlertsOf(st, j) # {}


\* C7: whenever the poller is between two passes or has stopped, every Stream
\* in live_streams is an open Stream (end_at null) of the streamer it is
\* keyed by.
C7_LiveCacheOpen ==
    poll.pc \in {"sleep", "dead"}
    => \A s \in LiveKeys :
        /\ streams[live_streams[s]].end_at = NULL
        /\ streams[live_streams[s]].streamerid = s

\* C8: after load_subs the watch list holds the streamer of every
\* subscription and the streamer of every Stream row with end_at null.
C8_WatchUnion ==
    [][cog_load
        => /\ ToWatch \cap streamers \subseteq Range(watching')
           /\ \A i \in DOMAIN streams :
                (streams[i].end_at = NULL /\ streams[i].streamerid \in streamers)
                => streams[i].streamerid \in Range(watching')
      ]_vars

\* C9: after load_subs the keys of live_streams are the streamers that have a
\* Stream row with end_at null, and no Stream row with an end_at is in it.
C9_LiveCacheRebuilt ==
    [][cog_load
        => /\ {s \in StreamerIds : live_streams'[s] # NULL}
                = {streams[i].streamerid :
                        i \in {k \in DOMAIN streams : streams[k].end_at = NULL}}
           /\ \A s \in StreamerIds :
                live_streams'[s] # NULL
                => streams[live_streams'[s]].end_at = NULL
      ]_vars

\* Whether a subscription other than `except` is of this channel and streamer.
Taken(channelid, streamerid, except) ==
    \E i \in SubIds \ {except} :
        /\ subs[i].channelid = channelid
        /\ subs[i].streamerid = streamerid

\* C10: no two subscriptions are of the same (channel, streamer) pair, and a
\* create or a channel change that would make such two leaves the
\* subscriptions as they are.
C10_UniquePairs ==
    /\ [](\A i, j \in SubIds :
            (/\ subs[i].channelid = subs[j].channelid
             /\ subs[i].streamerid = subs[j].streamerid) => i = j)
    /\ [][/\ \A streamer \in StreamerIds, channel \in ChannelIds :
                (/\ streamalert_create_cmd(streamer, channel)
                 /\ Taken(channel, streamer, NULL))
                => subs' = subs
          /\ \A subid \in SubIds, channel \in ChannelIds :
                (/\ channel_menu(subid, channel)
                 /\ Taken(channel, subs[subid].streamerid, subid))
                => subs' = subs
         ]_vars

\* Two subscriptions of one streamer are in two channels.
C10_TwoChannels ==
    \E i, j \in SubIds :
        /\ i < j
        /\ subs[i].streamerid = subs[j].streamerid
        /\ subs[i].channelid # subs[j].channelid


C12_NoOpEndPolicy ==
    [][\A t \in DOMAIN tasks :
        LET subid == Head(tasks[t].subbed)
            found == AlertsOf(tasks[t].stream, subid)
        IN /\ (/\ sub_resolve_check(t)
               /\ found # {}
               /\ \A a \in found : alerts[a].resolved_at = NULL
               /\ ~subs[subid].end_delete
               /\ ~subs[subid].end_message)
              => /\ StaysAt(t, {"save"})
                 /\ messages' = messages
                 /\ streams[tasks[t].stream].end_at # NULL
           /\ (/\ sub_resolve_save(t)
               /\ ~tasks[t].delmsg
               /\ ~tasks[t].endmsg
               /\ alerts[tasks[t].alert].exists)
              => /\ alerts'[tasks[t].alert].resolved_at # NULL
                 /\ messages' = messages
      ]_vars

\* The stream of an alert has ended and the alert is resolved, under a
\* subscription that never had an end policy: the posted message is as sent.
C12_ResolvedUntouched ==
    \E a \in AlertIds :
        /\ alerts[a].resolved_at # NULL
        /\ streams[alerts[a].streamid].end_at # NULL
        /\ ~subs[alerts[a].subscriptionid].end_delete
        /\ ~subs[alerts[a].subscriptionid].end_message
        /\ messages[alerts[a].messageid].deletes = 0
        /\ messages[alerts[a].messageid].edits = 0
        /\ ~messages[alerts[a].messageid].deleted
        /\ tasks = <<>>

\* C13: once a pass of poll_live has raised, the loop is over: until the cog
\* is unloaded no step is the poller's, so the cache, the Stream rows and the
\* units forked stay as they are, while the units in flight go on.
C13_PollDeathIsFinal ==
    [][poll.pc = "dead"
        => \/ cog_unload
           \/ /\ poll' = poll
              /\ streams' = streams
              /\ live_streams' = live_streams
              /\ (watching' = watching \/ Create)
              /\ forked' = forked
              /\ Len(tasks') <= Len(tasks)
      ]_vars

\* The loop is over with a stream left in the cache, and the dispatch unit
\* forked for that stream has stored its alert.
C13_DeadWithAlert ==
    /\ poll.pc = "dead"
    /\ \E s \in LiveKeys : \E a \in AlertIds : alerts[a].streamid = live_streams[s]
    /\ tasks = <<>>

\* C14: of the streamers Twitch answers with, those not in live_streams are
\* started and those in it are not; each started streamer gets one Stream
\* row with end_at null, which becomes its live_streams entry, and one
\* on_stream_start unit; nothing else creates a Stream row or such a unit,
\* and when the pass is over no started streamer is left.
C14_StartTransition ==
    /\ [](/\ poll.started \cap LiveKeys = {}
          /\ poll.pc = "sleep" => poll.started = {}
          /\ DOMAIN forked = DOMAIN streams
          /\ \A st \in DOMAIN streams : forked[st].start = 1)
    /\ [][/\ poll_live_started
             => \E s \in poll.started :
                 /\ streams' = Append(streams, [streamerid |-> s, end_at |-> NULL,
                                             exists |-> TRUE])
                 /\ live_streams' = [live_streams EXCEPT ![s] = Len(streams')]
                 /\ tasks' = Append(tasks, NewTask("start", Len(streams')))
                 /\ poll'.started = poll.started \ {s}
          /\ (streams' # streams /\ Len(streams') # Len(streams))
             => poll_live_started
          /\ (Len(tasks') > Len(tasks) /\ tasks'[Len(tasks')].kind = "start")
             => poll_live_started
         ]_vars

\* One pass has started both streamers: each has its open Stream row in
\* live_streams, and one unit was forked for each.
C14_BothStarted ==
    /\ poll.pc = "sleep"
    /\ Len(streams) = 2
    /\ \A s \in StreamerIds :
        /\ live_streams[s] # NULL
        /\ streams[live_streams[s]].end_at = NULL
        /\ streams[live_streams[s]].streamerid = s
    /\ live_streams[1] # live_streams[2]
    /\ \A st \in DOMAIN streams : forked[st] = [start |-> 1, end |-> 0]

\* C15: whenever an on_stream_end unit is in flight, its Stream has an end_at
\* and is not in live_streams.
C15_ResolveAfterClose ==
    \A t \in DOMAIN tasks :
        tasks[t].kind = "end"
        => /\ streams[tasks[t].stream].end_at # NULL
           /\ \A s \in StreamerIds : live_streams[s] # tasks[t].stream

\* A pass of poll_live that requested a block and got an answer.
Answered ==
    /\ poll_live_request
    /\ watching # <<>>
    /\ poll'.pc # "dead"

\* The streamers of the block a pass requests.
Requested == Range(Block(watching, (poll.block_i + 1) % NumBlocks(watching)))

\* C16: every streamer that is in live_streams and not in the block that was
\* requested is in ended, whatever Twitch answered; each streamer in ended
\* is removed from live_streams, its Stream gets an end_at and an
\* on_stream_end unit is forked, before the pass is over.
C16_UnscopedEnded ==
    /\ [](poll.pc = "sleep" => poll.ended = {})
    /\ [][/\ Answered => (LiveKeys \ Requested) \subseteq poll'.ended
          /\ poll_live_pop
             => \E s \in poll.ended :
                 /\ live_streams[s] # NULL
                 /\ live_streams'[s] = NULL
                 /\ poll'.popped = live_streams[s]
                 /\ poll'.ended = poll.ended \ {s}
          /\ poll_live_update
             => /\ streams'[poll.popped].end_at # NULL
                /\ tasks' = Append(tasks, NewTask("end", poll.popped))
         ]_vars

\* The watch list is two blocks, and a streamer of the block that was not
\* requested has been ended: its Stream is closed and out of live_streams.
C16_EndedUnasked ==
    /\ Len(watching) = 2
    /\ poll.pc = "sleep"
    /\ \E st \in DOMAIN streams :
        /\ streams[st].end_at # NULL
        /\ forked[st].end = 1
        /\ streams[st].streamerid \notin Range(Block(watching, poll.block_i))
        /\ live_streams[streams[st].streamerid] = NULL

\* C17: a pass that requests a block requests the one after the block of the
\* pass before, modulo the number of blocks of the watch list as it is now,
\* and starts only streamers of that block; with two blocks, two passes in a
\* row request the two blocks.
C17_PageRotation ==
    [][Answered
        => /\ poll'.block_i = (poll.block_i + 1) % NumBlocks(watching)
           /\ poll'.block_i \in 0..(NumBlocks(watching) - 1)
           /\ poll'.started \subseteq Range(Block(watching, poll'.block_i))
           /\ Cardinality(Range(Block(watching, poll'.block_i))) <= scope.block
           /\ NumBlocks(watching) = 2 => poll'.block_i # poll.block_i
      ]_vars

\* With a watch list of two blocks the pass requests the first block, after
\* a pass that requested the second: a streamer of the second block has a
\* Stream, and the streamer of the first is started.
C17_SecondThenFirst ==
    /\ Len(watching) = 2
    /\ poll.pc = "loop"
    /\ poll.block_i = 0
    /\ watching[1] \in poll.started
    /\ \E st \in DOMAIN streams : streams[st].streamerid = watching[2]

\* C18: while the poller is between passes and the watch list is empty, no
\* step but the unloading of the cog changes the poller's position and block
\* index, live_streams, the Stream rows or the units that were forked: a
\* pass that finds the watch list empty does nothing.
C18_EmptyWatchSkip ==
    [][(poll.pc = "sleep" /\ watching = <<>>)
        => \/ cog_unload
           \/ /\ poll' = poll
              /\ live_streams' = live_streams
              /\ streams' = streams
              /\ forked' = forked
              /\ Len(tasks') <= Len(tasks)
      ]_vars

\* The poller is between passes with an empty watch list and a Stream in
\* live_streams, after the cog was loaded again.
C18_EmptyWatchLiveCache ==
    /\ poll.pc = "sleep"
    /\ watching = <<>>
    /\ LiveKeys # {}
    /\ loads = 2

\* C19: an Alert row is stored by sub_alert only, after its send went
\* through: it holds the id of a message that was sent for its stream and
\* subscription, no two rows hold the same message, it starts with
\* resolved_at null, and the steps that skip or fail a subscription store
\* nothing.
C19_AlertAfterSend ==
    /\ [](\A a \in DOMAIN alerts :
            /\ alerts[a].messageid \in DOMAIN messages
            /\ messages[alerts[a].messageid].streamid = alerts[a].streamid
            /\ messages[alerts[a].messageid].subid = alerts[a].subscriptionid
            /\ \A b \in DOMAIN alerts :
                alerts[b].messageid = alerts[a].messageid => a = b)
    /\ [][/\ Len(alerts') # Len(alerts)
             => /\ Len(alerts') = Len(alerts) + 1
                /\ alerts'[Len(alerts')].resolved_at = NULL
                /\ \E t \in DOMAIN tasks :
                    /\ sub_alert_store(t)
                    /\ alerts'[Len(alerts')].messageid = tasks[t].message
                    /\ alerts'[Len(alerts')].streamid = tasks[t].stream
                    /\ alerts'[Len(alerts')].subscriptionid = Head(tasks[t].subbed)
          /\ \A t \in DOMAIN tasks :
                (on_stream_start(t) \/ sub_alert_channel(t) \/ sub_alert_send(t))
                => alerts' = alerts
         ]_vars

\* A dispatch unit is over: one subscription of the stream has its Alert row
\* with the message sent for it, the other, paused, has neither.
C19_OneAlertOneSkipped ==
    /\ tasks = <<>>
    /\ \E st \in DOMAIN streams : \E i, j \in SubIds :
        /\ i # j
        /\ subs[i].streamerid = subs[j].streamerid
        /\ subs[j].paused
        /\ AlertsOf(st, i) # {}
        /\ AlertsOf(st, j) = {}
        /\ \A m \in DOMAIN messages : messages[m].subid # j

\* C20: an exception of sub_alert that is not an HTTPException ends the
\* unit there: the subscriptions after the failing one are not sent to and
\* get no Alert row, and the rows stored before stay.
C20_Escalation ==
    [][\A t \in DOMAIN tasks :
        (/\ sub_alert_store(t)
         /\ Head(tasks[t].subbed) \notin SubIds)
        => /\ Len(tasks') = Len(tasks) - 1
           /\ \A u \in DOMAIN tasks' :
                tasks'[u] = tasks[IF u < t THEN u ELSE u + 1]
           /\ alerts' = alerts
           /\ messages' = messages
      ]_vars

\* The first subscription of a batch of two was removed after its message
\* was sent: the unit is over, the first has no Alert row and nothing was
\* sent for the second.
C20_BatchAborted ==
    /\ tasks = <<>>
    /\ errors = {}
    /\ \E st \in DOMAIN streams : \E i, j \in DOMAIN subs :
        /\ i < j
        /\ ~subs[i].exists
        /\ j \in SubIds
        /\ ~subs[j].paused
        /\ subs[j].streamerid = streams[st].streamerid
        /\ \E m \in DOMAIN messages : messages[m].subid = i /\ messages[m].streamid = st
        /\ \A m \in DOMAIN messages : messages[m].subid # j
        /\ alerts = <<>>

\* C21: sub_alert for a subscription whose channel is not found, or in which
\* the bot may not send messages and embed links, records a subscription
\* error for it, sends nothing, stores no Alert row and goes on to the next
\* subscription of the batch; a send is only issued by a call whose channel
\* was found.
C21_MissingChannel ==
    [][\A t \in DOMAIN tasks :
        /\ sub_alert_channel(t)
           => \/ /\ StaysAt(t, {"send"})
                 /\ tasks'[t].channel = subs[Head(tasks[t].subbed)].channelid
                 /\ errors' = errors
              \/ /\ errors' # errors
                 /\ \E err_msg \in {"Subscription channel no longer exists.",
                                    "Insufficient permissions to post alert message."} :
                        errors' = errors \cup
                            {<<tasks[t].stream, Head(tasks[t].subbed), err_msg>>}
                 /\ messages' = messages
                 /\ alerts' = alerts
                 /\ GoesOn(t, "channel")
        /\ sub_alert_send(t) => tasks[t].channel # NULL
      ]_vars

\* In one batch the channel of the first subscription was not found, nothing
\* was sent for it, and the second subscription has its Alert row.
C21_ChannelGoneOneSent ==
    \E st \in DOMAIN streams : \E i, j \in SubIds :
        /\ i < j
        /\ <<st, i, "Subscription channel no longer exists.">> \in errors
        /\ \A m \in DOMAIN messages : messages[m].subid # i
        /\ AlertsOf(st, i) = {}
        /\ AlertsOf(st, j) # {}

\* C22: sub_alert that finds the Streamer row of its stream gone sends
\* nothing, stores no Alert row, records no error and raises nothing: the
\* unit goes on to the next subscription of its batch.
C22_StreamerGoneSkipped ==
    [][\A t \in DOMAIN tasks :
        (/\ sub_alert_send(t)
         /\ streams[tasks[t].stream].streamerid \notin streamers)
        => /\ messages' = messages
           /\ alerts' = alerts
           /\ errors' = errors
           /\ GoesOn(t, "channel")
      ]_vars

\* The streamer of a stream is gone, and with it its two subscriptions; the
\* dispatch unit of the stream is at the second of them, and nothing was sent
\* and no error recorded.
C22_SkippedInBatch ==
    \E t \in DOMAIN tasks :
        /\ tasks[t].kind = "start"
        /\ tasks[t].pc = "channel"
        /\ tasks[t].subbed = <<2>>
        /\ streams[tasks[t].stream].streamerid \notin streamers
        /\ \A i \in {1, 2} :
            /\ subs[i].streamerid = streams[tasks[t].stream].streamerid
            /\ ~subs[i].exists
        /\ subs[1].channelid # subs[2].channelid
        /\ messages = <<>>
        /\ errors = {}

\* C23: a step of sub_resolve taken while the Streamer row of its stream is
\* gone raises nothing: the call is still on its way to the save, or the unit
\* has gone on to the next subscription of its batch.
C23_VanishedResolved ==
    [][\A t \in DOMAIN tasks :
        (/\ \/ sub_resolve_check(t) \/ sub_resolve_locate(t)
            \/ sub_resolve_delete(t) \/ sub_resolve_edit(t)
            \/ sub_resolve_save(t)
         /\ streams[tasks[t].stream].streamerid \notin streamers)
        => \/ StaysAt(t, {"locate", "delete", "edit", "save"})
           \/ GoesOn(t, "check")
      ]_vars

\* C24: sub_resolve for a pair that has no Alert row changes no message and
\* no Alert row and is over, the unit going on to the next subscription; the
\* steps that locate, delete, edit and save are only taken by a call that
\* holds the Alert row of its pair.
C24_NoAlertNoOp ==
    /\ [](\A t \in DOMAIN tasks :
            tasks[t].pc \in {"locate", "delete", "edit", "save"}
            => /\ tasks[t].alert \in DOMAIN alerts
               /\ alerts[tasks[t].alert].streamid = tasks[t].stream
               /\ alerts[tasks[t].alert].subscriptionid = Head(tasks[t].subbed))
    /\ [][\A t \in DOMAIN tasks :
            (/\ sub_resolve_check(t)
             /\ AlertsOf(tasks[t].stream, Head(tasks[t].subbed)) = {})
            => /\ messages' = messages
               /\ alerts' = alerts
               /\ GoesOn(t, "check")
         ]_vars

\* The resolve unit of a stream is at the second of two subscriptions, after
\* the first, which has no Alert row and no message (its channel was not
\* found when the stream started).
C24_PassedOverNoAlert ==
    \E t \in DOMAIN tasks :
        /\ tasks[t].kind = "end"
        /\ tasks[t].subbed = <<2>>
        /\ Subbed(tasks[t].stream) = <<1, 2>>
        /\ \A a \in DOMAIN alerts : alerts[a].subscriptionid # 1
        /\ \A m \in DOMAIN messages : messages[m].subid # 1
        /\ AlertsOf(tasks[t].stream, 2) # {}

\* C25: a Stream row stays, its end_at is only set by the poller's
\* end-transition, and an end_at that is set is never changed again.
C25_ClosedOnce ==
    [][\A i \in DOMAIN streams :
        /\ i \in DOMAIN streams'
        /\ streams'[i].exists = streams[i].exists
        /\ streams'[i].end_at # streams[i].end_at => poll_live_update
        /\ streams[i].end_at # NULL => streams'[i].end_at = streams[i].end_at
      ]_vars

\* C26: whatever the units in flight are doing, the poller's next step can be
\* taken (up to the numbers of units, Stream rows and clock readings a run is
\* given); a step of the poller leaves the units in flight as they are, and a
\* unit it forks has run nothing yet.
C26_FireAndForget ==
    /\ [](/\ poll.pc = "sleep" => ENABLED poll_live_request
          /\ (/\ poll.pc = "loop"
              /\ poll.started \cap streamers # {}
              /\ Len(streams) < scope.streams
              /\ Len(tasks) < MaxTasks) => ENABLED poll_live_started
          /\ (poll.pc = "loop" /\ poll.started = {}) => ENABLED poll_live_pop
          /\ (/\ poll.pc = "update"
              /\ now <= MaxClock
              /\ Len(tasks) < MaxTasks) => ENABLED poll_live_update)
    /\ [][/\ (poll_live_request \/ poll_live_pop) => tasks' = tasks
          /\ (poll_live_started \/ poll_live_update)
             => /\ Len(tasks') = Len(tasks) + 1
                /\ SubSeq(tasks', 1, Len(tasks)) = tasks
                /\ tasks'[Len(tasks')].pc = "fetch"
         ]_vars

\* The poller is asleep after the pass that ended a stream, and neither the
\* dispatch unit nor the resolve unit of that stream has run a step.
C26_AsleepUnitsPending ==
    /\ poll.pc = "sleep"
    /\ Len(tasks) = 2
    /\ tasks[1] = NewTask("start", tasks[1].stream)
    /\ tasks[2] = NewTask("end", tasks[1].stream)
    /\ streams[tasks[1].stream].end_at # NULL

\* C27: cog_unload leaves the units in flight, the tables and the messages
\* as they are; from then until the cog is loaded again no step creates or
\* closes a Stream row or forks a unit, while a unit in flight can still take
\* its next step (up to the clock readings a run is given).
C27_ShutdownPollerOnly ==
    /\ []((poll.pc = "unloaded" /\ tasks # <<>> /\ now <= MaxClock)
            => ENABLED (Dispatch \/ Resolve))
    /\ [][/\ cog_unload
             => /\ tasks' = tasks
                /\ db' = db
                /\ messages' = messages
          /\ poll.pc = "unloaded"
             => \/ cog_load
                \/ /\ poll' = poll
                   /\ streams' = streams
                   /\ forked' = forked
                   /\ Len(tasks') <= Len(tasks)
         ]_vars

\* The cog was unloaded after its one load, and a dispatch unit is in flight:
\* it has sent its message and has its Alert row still to store.
C27_UnitsAfterShutdown ==
    /\ poll.pc = "unloaded"
    /\ loads = 1
    /\ \E t \in DOMAIN tasks :
        /\ tasks[t].kind = "start"
        /\ tasks[t].pc = "store"
        /\ tasks[t].message \in DOMAIN messages
        /\ alerts = <<>>

\* The bounds of a run are used up: no Stream row or clock reading is left
\* for the poller's next statement.
Exhausted == Len(streams) = scope.streams \/ now > MaxClock

C29_WritesObserved ==
    [][/\ \A i \in SubIds, p \in BOOLEAN :
            streamalert_pause_cmd(i, p) => SettingValue(i, "paused")' = p
       /\ \A t \in DOMAIN tasks :
            LET subid == Head(tasks[t].subbed) IN
            /\ (sub_alert_send(t) /\ SettingValue(subid, "paused"))
               => /\ messages' = messages
                  /\ alerts' = alerts
                  /\ GoesOn(t, "channel")
            /\ (/\ sub_alert_send(t)
                /\ ~SettingValue(subid, "paused")
                /\ streams[tasks[t].stream].streamerid \in streamers)
               => \/ /\ Len(messages') = Len(messages) + 1
                     /\ StaysAt(t, {"store"})
                  \/ <<tasks[t].stream, subid, "Failed to post live alert.">>
                        \in errors'
            /\ (sub_resolve_check(t) /\ StaysAt(t, {"locate", "save"}))
               => /\ tasks'[t].delmsg = SettingValue(subid, "end_delete")
                  /\ tasks'[t].endmsg = SettingValue(subid, "end_message")
                  /\ tasks'[t].pc = "locate"
                     => \/ SettingValue(subid, "end_delete")
                        \/ SettingValue(subid, "end_message")
      ]_vars

\* A stream started once under one load of the cog and is still open; its
\* dispatch unit is over, the subscription is paused, and nothing was sent
\* and no error recorded.
C29_PauseObeyed ==
    /\ loads = 1
    /\ Len(streams) = 1
    /\ streams[1].end_at = NULL
    /\ forked[1] = [start |-> 1, end |-> 0]
    /\ tasks = <<>>
    /\ Len(subs) = 1
    /\ subs[1].exists
    /\ SettingValue(1, "paused")
    /\ messages = <<>>
    /\ errors = {}

\* C30: sub_alert whose formatter returns no message has nothing to send: it
\* issues no send (no message, no failed send recorded), stores no Alert row
\* and goes on to the next subscription of the batch.
C30_EmptyNothingSent ==
    [][\A t \in DOMAIN tasks :
        (/\ sub_alert_send(t)
         /\ ShouldSend(Head(tasks[t].subbed), tasks[t].stream)
         /\ formatter(live_message_value, live_mapping("Alice", "alice")).none)
        => /\ messages' = messages
           /\ errors' = errors
           /\ alerts' = alerts
           /\ GoesOn(t, "channel")
      ]_vars


\* The dispatch unit and the resolve unit of a Stream were both forked and
\* neither is in flight.
BothFinished(streamid) ==
    /\ forked[streamid].start > 0
    /\ forked[streamid].end > 0
    /\ \A t \in DOMAIN tasks : tasks[t].stream # streamid

\* C31: once the dispatch unit and the resolve unit of a Stream have both
\* finished, every Alert row of the Stream has its resolved_at set: the
\* resolve unit passes over no subscription whose Alert row the dispatch
\* unit stores afterwards.
C31_AlertsResolved ==
    \A a \in AlertIds :
        BothFinished(alerts[a].streamid) => alerts[a].resolved_at # NULL


\* C32: in every state, across passes of the poller, passes that raise and
\* reloads of the cog, no streamer has two Stream rows with end_at null.
C32_OneOpenStream ==
    \A i, j \in DOMAIN streams :
        (/\ streams[i].exists /\ streams[j].exists
         /\ streams[i].streamerid = streams[j].streamerid
         /\ streams[i].end_at = NULL /\ streams[j].end_at = NULL)
        => i = j


\* C33: over any run, reloads of the cog included, the poller forks at most
\* one on_stream_start unit and at most one on_stream_end unit for a Stream
\* row, and no on_stream_end unit for a row it forked no on_stream_start
\* unit for.
C33_OneUnitEach ==
    \A st \in DOMAIN forked :
        /\ forked[st].start <= 1
        /\ forked[st].end <= 1
        /\ forked[st].end > 0 => forked[st].start > 0


\* C34: while the cog stays loaded the watch list only gets longer; a remove
\* command deletes the subscription and leaves the watch list, live_streams
\* and the Stream rows as they are; a pass requests a block of the watch
\* list whatever the subscriptions are, and the start loop, where it has a
\* started streamer, can create the Stream row whether the streamer has a
\* subscription or not. The watch list load_subs makes holds streamers of
\* subscriptions only.
C34_WatchOnlyGrows ==
    /\ [][/\ cog_load => Range(watching') \subseteq ToWatch
          /\ (Loaded /\ poll'.pc # "unloaded")
             => /\ Len(watching) <= Len(watching')
                /\ SubSeq(watching', 1, Len(watching)) = watching
          /\ \A i \in DOMAIN subs :
                streamalert_remove_cmd(i)
                => /\ ~subs'[i].exists
                   /\ watching' = watching
                   /\ live_streams' = live_streams
                   /\ streams' = streams
          /\ Answered => Range(poll'.block) = Requested
         ]_vars
    /\ [](/\ poll.pc = "loop"
          /\ poll.started # {}
          /\ Len(streams) < scope.streams
          /\ Len(tasks) < MaxTasks
          => ENABLED poll_live_started)

\* Within one load of the cog, a streamer whose only subscription was removed
\* after an alert of its first stream is on the watch list and has a second
\* Stream row, open and in live_streams, for which nothing was sent.
C34_StreamAfterRemoval ==
    \E s \in Range(watching) :
        /\ loads = 1
        /\ \A i \in SubIds : subs[i].streamerid # s
        /\ \E i \in DOMAIN subs : ~subs[i].exists /\ subs[i].streamerid = s
        /\ Len(streams) = 2
        /\ streams[1].streamerid = s /\ streams[1].end_at # NULL
        /\ streams[2].streamerid = s /\ streams[2].end_at = NULL
        /\ live_streams[s] = 2
        /\ \E a \in DOMAIN alerts : alerts[a].streamid = 1 /\ ~alerts[a].exists
        /\ \A a \in DOMAIN alerts : alerts[a].streamid # 2
        /\ \A m \in DOMAIN messages : messages[m].streamid # 2
        /\ errors = {}
        /\ tasks = <<>>


\* The step of the unit at place t in which an exception that is not an
\* HTTPException leaves it: the arguments of the send cannot be made, the
\* INSERT of the Alert row is rejected, or the end message cannot be
\* formatted.
Raising(t) ==
    \/ /\ sub_alert_send(t)
       /\ ShouldSend(Head(tasks[t].subbed), tasks[t].stream)
       /\ messages' = messages
       /\ errors' = errors
    \/ /\ sub_alert_store(t)
       /\ alerts' = alerts
    \/ /\ sub_resolve_edit(t)
       /\ ~CanFormat(t)

\* C35: an exception that leaves a unit ends that unit and nothing else: the
\* other units, the poller, the watch list, live_streams, the tables and the
\* messages are as they were; the loop stops by a raise of its own pass only,
\* and asleep it can always take its next pass.
C35_FailureContained ==
    /\ [][/\ \A t \in DOMAIN tasks :
                Raising(t)
                => /\ tasks' = Remove(tasks, t)
                   /\ poll' = poll
                   /\ watching' = watching
                   /\ live_streams' = live_streams
                   /\ db' = db
                   /\ messages' = messages
          /\ (poll'.pc = "dead" /\ poll.pc # "dead")
             => (poll_live_request \/ poll_live_raise)
         ]_vars
    /\ [](poll.pc = "sleep" => ENABLED poll_live_request)

\* The dispatch unit of the first stream sent its message and was ended by
\* the rejected INSERT of its Alert row; the poller is asleep, the second
\* stream is in live_streams and a unit of it is in flight.
C35_OneFailedOthersRun ==
    /\ \E m \in DOMAIN messages : messages[m].streamid = 1
    /\ \A a \in DOMAIN alerts : alerts[a].streamid # 1
    /\ \A t \in DOMAIN tasks : tasks[t].stream # 1
    /\ poll.pc = "sleep"
    /\ \E s \in Range(watching) : live_streams[s] = 2
    /\ \E t \in DOMAIN tasks : tasks[t].stream = 2 /\ tasks[t].pc # "fetch"

====
